---------------------------- MODULE Spec2Model ----------------------------
(***************************************************************************)
(* Status effects, entity properties and their per-tick synchronisation    *)
(* systems of the feather server:                                          *)
(*   core/src/effect.rs            the StatusEffect catalog                *)
(*   core/src/entityproperty.rs    EntityProperties / PropertyModifier     *)
(*   server/src/entity/effect.rs   update_basic_effects,                   *)
(*                                 update_speed_effects                    *)
(*   server/src/entity/properties.rs  poll_entity_properties_changed       *)
(*                                                                         *)
(* Integers wider than TLC's are represented as follows: a u64 result that *)
(* wrapped below zero is kept as the negative integer n standing for       *)
(* 2^64 + n; every value that occurs is below 2^31 in magnitude.           *)
(***************************************************************************)
EXTENDS Integers, Sequences, FiniteSets, TLC

VARIABLES
    tick_count,      \* game.tick_count
    effects,         \* entity -> EntityBasicStatusEffects.0 (a Vec)
    speed,           \* entity -> its SpeedEffect component, or NoSpeed
    properties,      \* entity -> its EntityProperties component (dirty, inner)
    sent,            \* packets handed to broadcast_chunk_update_boxed in this tick
    pending,         \* systems that have not yet run in this tick
    aborted,         \* a panic has unwound a system
    overflow_checks, \* build profile: TRUE = arithmetic overflow panics (debug)
    nextUid,         \* history: identity given to the next constructed effect
    startPkts,       \* history: uid -> start packets broadcast for it
    removePkts,      \* history: uid -> RemoveEntityEffect packets broadcast for it
    refreshed,       \* history: uid -> duration fields of its refresh packets
    granted,         \* history: uid -> what was constructed with it: none, basic, speed
    modsAdded,       \* history: uid -> modifiers a SpeedEffect has added
    propPkts,        \* history: entity -> EntityProperties packets broadcast
    lastNew,         \* result of the last BasicStatusEffect::new call
    encoded,         \* catalog: the kind last given to protocol_id, or None
    wire,            \* catalog: last i8 given to from_protocol_id
    decoded,         \* catalog: what from_protocol_id returned for it
    panic_msg,       \* which panic has unwound a system, or "none"
    props,           \* codec: the EntityProperties given to push_properties
    buf,             \* codec: the bytes of the buffer
    read,            \* codec: what try_get_properties returned for buf
    rebuf,           \* codec: the bytes push_properties wrote for the decoded set
    world,           \* despawn: entity -> its EntityId, Uuid, position, Player marker
    inbox,           \* despawn: entity -> the packets sent to it (players only)
    chunk_map,       \* blocks: position -> the block there, or NoChunk
    block_events,    \* blocks: EventChannel<BlockUpdateEvent>, every event written
    destroy_events,  \* blocks: EventChannel<EntityDestroyEvent>, every event written
    reader,          \* blocks: system -> how many events of its channel it has read
    block_entities,  \* blocks: the BlockEntities resource, position -> entity
    components,      \* blocks: created entity -> its creator's block and position
    alive            \* blocks: the entities that are alive

\* the state of the codec
codecVars == <<props, buf, read, rebuf>>

\* the state of the despawn broadcaster
despawnVars == <<world, inbox>>

\* the state of the block entity systems
blockVars == <<chunk_map, block_events, destroy_events, reader, block_entities,
               components, alive>>

\* what the systems of the effect scheduler never touch
otherVars == <<codecVars, despawnVars, blockVars>>

vars == <<tick_count, effects, speed, properties, sent, pending, aborted,
          overflow_checks, nextUid, startPkts, removePkts, refreshed, granted,
          modsAdded, propPkts, lastNew, encoded, wire, decoded, panic_msg, otherVars>>

---------------------------------------------------------------------------
(* Bounds of the model *)

\* construction calls (basic or speed effects) in one behaviour
MaxGrants == 3
\* last tick of a behaviour of the short-duration specifications
MaxTick == 11
\* last tick of a behaviour of the long-duration specification
MaxLongTick == 1206
\* effects of the long-duration specification are granted before this tick
GrantWindow == 2
\* construction calls in one behaviour of the long-duration specification
MaxLongGrants == 1
\* construction calls in one behaviour of the construction specification
MaxConstructs == 1
\* construction calls in one behaviour of the phase-order specification
MaxOrderGrants == 3
\* last tick of a behaviour of the phase-order specification
MaxOrderTick == 6
\* entities of a world in which entities despawn
MaxEntities == 3
\* BlockUpdateEvents in one behaviour
MaxBlockUpdates == 3
\* properties of a set given to the codec
MaxProperties == 2
\* modifiers of one property given to the codec
MaxModifiers == 2
\* modifiers gameplay code adds to one property in one behaviour
MaxMutations == 1
\* speed effects constructed in one behaviour of the speed specification
MaxSpeedGrants == 2
\* last tick of a behaviour of the speed specification
MaxSpeedTick == 3

Entities == {1, 2}
\* entities that carry a Network component (players)
NetworkEntities == {1}
Levels == {1}
FlagSet == {2}
ShortDurations == {2, 9}
LongDurations == {600, 1200}
Uids == 1..(MaxGrants + 1)

---------------------------------------------------------------------------
(* Fixed-width integer conversions *)

I8Max == 127
I32Max == 2147483647
U8Mod == 256

\* x as i8: the low 8 bits, signed
AsI8(x) == ((x + I8Max + 1) % U8Mod) - (I8Max + 1)

\* x as i32: the low 32 bits; a wrapped u64 (negative n for 2^64 + n) keeps n
AsI32(x) ==
    IF x >= -I32Max - 1 /\ x <= I32Max THEN x
    ELSE ((x + I32Max + 1) % (2 * (I32Max + 1))) - (I32Max + 1)

RECURSIVE PowMod(_, _, _)
PowMod(b, e, m) ==
    IF e = 0 THEN 1 % m
    ELSE IF e % 2 = 0 THEN LET h == PowMod(b, e \div 2, m) IN (h * h) % m
    ELSE (b * PowMod(b, e - 1, m)) % m

U64Bits == 64

\* a u64 value modulo m, for the wrapped representation
U64Rem(n, m) == IF n >= 0 THEN n % m ELSE (PowMod(2, U64Bits, m) + n) % m

---------------------------------------------------------------------------
(* core/src/effect.rs: the StatusEffect catalog *)

StatusEffectVariants ==
    << "Speed", "Slowness", "Haste", "MiningFatigue", "Strength",
       "InstantHealth", "InstantDamage", "JumpBoost", "Nausea",
       "Regeneration", "Resistance", "FireResistance", "WaterBreathing",
       "Invisibility", "Blindness", "NightVision", "Hunger", "Weakness",
       "Poison", "Wither", "HealthBoost", "Absorption", "Saturation",
       "Glowing", "Levitation", "Luck", "BadLuck", "SlowFalling",
       "ConduitPower", "DolphinsGrace", "BadOmen", "HeroOfTheVillage" >>

StatusEffect == { StatusEffectVariants[i] : i \in 1..Len(StatusEffectVariants) }

None == "None"

\* ToPrimitive::to_i8 of the derive: the variant's discriminant, from 0
to_i8(k) == (CHOOSE i \in 1..Len(StatusEffectVariants) : StatusEffectVariants[i] = k) - 1

\* FromPrimitive::from_i8 of the derive
from_i8(n) ==
    IF n >= 0 /\ n < Len(StatusEffectVariants) THEN StatusEffectVariants[n + 1] ELSE None

protocol_id_noOffset(k) == to_i8(k)

protocol_id(k) == AsI8(to_i8(k) + 1)

\* id - 1 overflows i8 for id = -128: a panic with overflow checks, else a wrap
from_protocol_id(id, checks) ==
    IF id - 1 < -I8Max - 1 /\ checks THEN "panic" ELSE from_i8(AsI8(id - 1))

---------------------------------------------------------------------------
(* Helpers over sequences and sets *)

Min(S) == CHOOSE x \in S : \A y \in S : x <= y

RECURSIVE ConcatFrom(_, _)
\* f[e1] \o f[e2] \o ... over the entities of S in ascending (query) order
ConcatFrom(f, S) ==
    IF S = {} THEN <<>>
    ELSE LET e == Min(S) IN f[e] \o ConcatFrom(f, S \ {e})

\* Vec::remove(i) for a 0-based i < len
RemoveAt(v, i) == [j \in 1..(Len(v) - 1) |-> IF j <= i THEN v[j] ELSE v[j + 1]]

Perms(S) ==
    { s \in [1..Cardinality(S) -> S] : \A i, j \in 1..Cardinality(S) : i # j => s[i] # s[j] }

Count(pkts, uid, phase) ==
    Cardinality({ i \in DOMAIN pkts : pkts[i].uid = uid /\ pkts[i].phase = phase })

---------------------------------------------------------------------------
(* server/src/entity/effect.rs: BasicStatusEffect *)

TPS == 20
ExpirePeriod == 5
ResyncPeriod == 600

\* the kinds that have a handler of their own (SpeedEffect)
SpecializedKinds == {"Speed"}

\* BasicStatusEffect::new: every kind is accepted (the validation is a TODO).
\* uid is the model's identity of the constructed value.
BasicStatusEffect_new(entity_id, level, duration, effect_type, flags, uid) ==
    [ tag |-> "Ok",
      value |-> [ uid |-> uid,
                  entity_id |-> entity_id,
                  amplifier |-> level - 1,
                  time_start |-> -1,
                  duration |-> duration,
                  effect_type |-> effect_type,
                  flags |-> flags ] ]

create_packet(effect) ==
    [ type |-> "EntityEffect",
      entity_id |-> effect.entity_id,
      effect_id |-> protocol_id(effect.effect_type),
      amplifier |-> AsI8(effect.amplifier),
      duration |-> AsI32(effect.duration \div TPS),
      flags |-> effect.flags ]

\* one call of game.broadcast_chunk_update_boxed(world, packet, position.chunk(), None);
\* uid and phase record which effect and which phase produced the packet
Broadcast(packet, e, uid, phase) ==
    [ packet |-> packet, chunk |-> e, uid |-> uid, phase |-> phase ]

---------------------------------------------------------------------------
(* update_basic_effects, activation phase (effect.rs 123-136) *)

IsPending_orZero(effect) == effect.time_start <= 0

IsPending(effect) == effect.time_start < 0

Stamp(effect, now) == [effect EXCEPT !.time_start = now]

ActivateAll(effs, now) ==
    [ i \in 1..Len(effs) |-> IF IsPending(effs[i]) THEN Stamp(effs[i], now) ELSE effs[i] ]

StartPackets(effs, e) ==
    LET pend == SelectSeq(effs, IsPending)
    IN  [ i \in 1..Len(pend) |-> Broadcast(create_packet(pend[i]), e, pend[i].uid, "start") ]

---------------------------------------------------------------------------
(* update_basic_effects, expiration phase (effect.rs 138-161) *)

ExpirationDue_everyTick(now) == TRUE

\* if game.tick_count % 5 == 0
ExpirationDue(now) == now % ExpirePeriod = 0

\* remaining_time <= 0, in i64
IsStale(effect, now) == effect.time_start + effect.duration - now <= 0

RemovePacket(effect) ==
    [ type |-> "RemoveEntityEffect",
      entity_id |-> effect.entity_id,
      effect_id |-> protocol_id(effect.effect_type) ]

RECURSIVE ExpireLoop(_, _, _, _, _, _)
\* for (i, effect) in effects.0.clone().iter().enumerate(): snapshot is the clone,
\* live the Vec being mutated, i the 1-based position in the snapshot
ExpireLoop(snapshot, live, pkts, i, e, now) ==
    IF i > Len(snapshot)
    THEN [ effects |-> live, packets |-> pkts, panicked |-> FALSE ]
    ELSE LET effect == snapshot[i] IN
         IF IsStale(effect, now)
         THEN LET pkts2 == Append(pkts, Broadcast(RemovePacket(effect), e, effect.uid, "remove")) IN
              IF i - 1 >= Len(live)
              THEN \* Vec::remove panics: removal index should be < len
                   [ effects |-> live, packets |-> pkts2, panicked |-> TRUE ]
              ELSE ExpireLoop(snapshot, RemoveAt(live, i - 1), pkts2, i + 1, e, now)
         ELSE ExpireLoop(snapshot, live, pkts, i + 1, e, now)

\* the loop over all entities, then the broadcast of stale_effect_updates; a panic
\* in one entity's loop leaves the later entities untouched and sends nothing
ExpirePhase(effs, now) ==
    LET r == [ e \in Entities |-> ExpireLoop(effs[e], effs[e], <<>>, 1, e, now) ]
        bad == { e \in Entities : r[e].panicked }
    IN  IF bad = {}
        THEN [ effects |-> [ e \in Entities |-> r[e].effects ],
               packets |-> ConcatFrom([ e \in Entities |-> r[e].packets ], Entities),
               panicked |-> FALSE ]
        ELSE [ effects |-> [ e \in Entities |-> IF e <= Min(bad) THEN r[e].effects ELSE effs[e] ],
               packets |-> <<>>,
               panicked |-> TRUE ]

---------------------------------------------------------------------------
(* update_basic_effects, resync phase (effect.rs 163-179) *)

\* (effect.time_start as u64) + effect.duration - now in u64: value is the result
\* (negative n for the wrapped 2^64 + n), overflow whether an operation overflowed
RemainingU64(effect, now) ==
    LET start == effect.time_start
        addOverflow == start < 0 /\ effect.duration >= 1
        sum == start + effect.duration
        subOverflow == IF start < 0 /\ ~addOverflow THEN FALSE ELSE sum < now
    IN  [ value |-> sum - now, overflow |-> addOverflow \/ subOverflow ]

NeedsResync(remaining) == U64Rem(remaining, ResyncPeriod) = 0

RefreshDuration_original(effect, remaining) == AsI32(effect.duration)

RefreshDuration(effect, remaining) == AsI32(remaining)

RefreshPacket(effect, remaining) ==
    [ type |-> "EntityEffect",
      entity_id |-> effect.entity_id,
      effect_id |-> protocol_id(effect.effect_type),
      amplifier |-> AsI8(effect.amplifier),
      duration |-> RefreshDuration(effect, remaining),
      flags |-> effect.flags ]

RECURSIVE ResyncLoop(_, _, _, _, _, _)
\* for effect in effects.0.iter(), for one entity
ResyncLoop(effs, pkts, i, e, now, checks) ==
    IF i > Len(effs)
    THEN [ packets |-> pkts, panicked |-> FALSE ]
    ELSE LET effect == effs[i]
             rem == RemainingU64(effect, now)
         IN  IF rem.overflow /\ checks
             THEN [ packets |-> pkts, panicked |-> TRUE ]
             ELSE IF NeedsResync(rem.value)
             THEN ResyncLoop(effs,
                             Append(pkts, Broadcast(RefreshPacket(effect, rem.value), e, effect.uid, "refresh")),
                             i + 1, e, now, checks)
             ELSE ResyncLoop(effs, pkts, i + 1, e, now, checks)

RECURSIVE ResyncInOrder(_, _, _)
\* par_for_each over the entities with a Network component, taken in `order`;
\* a panic ends the scan
ResyncInOrder(r, order, k) ==
    IF k > Len(order)
    THEN [ packets |-> <<>>, panicked |-> FALSE ]
    ELSE IF r[order[k]].panicked
    THEN [ packets |-> r[order[k]].packets, panicked |-> TRUE ]
    ELSE LET rest == ResyncInOrder(r, order, k + 1)
         IN  [ packets |-> r[order[k]].packets \o rest.packets, panicked |-> rest.panicked ]

ResyncPhase(effs, now, checks, order) ==
    ResyncInOrder([ e \in NetworkEntities |-> ResyncLoop(effs[e], <<>>, 1, e, now, checks) ],
                  order, 1)

---------------------------------------------------------------------------
(* core/src/entityproperty.rs: EntityProperties, EntityProperty, PropertyModifier *)

\* floating-point values are kept as their decimal text: they are only copied
DefaultProperties ==
    [ generic_maxHealth |-> "20.0",
      generic_followRange |-> "32.0",
      generic_knockbackResistance |-> "0.0",
      generic_movementSpeed |-> "0.699999988079071",
      generic_attackDamage |-> "2.0",
      generic_attackSpeed |-> "4.0",
      generic_flyingSpeed |-> "0.4000000059604645" ]

PropertyNames == DOMAIN DefaultProperties

EntityProperty_new(base_value) == [ base_value |-> base_value, modifiers |-> <<>> ]

\* EntityProperties::new(): the props map
EntityProperties_new == [ k \in PropertyNames |-> EntityProperty_new(DefaultProperties[k]) ]

PropertyModifier_new(uuid, amount, operation) ==
    [ uuid |-> uuid, amount |-> amount, operation |-> operation ]

add_modifier(property, modifier) ==
    [ property EXCEPT !.modifiers = Append(@, modifier) ]

\* the server's EntityProperties component wraps the core map with a dirty flag;
\* a mutable access through it marks the set dirty
MarkDirty(p) == [ p EXCEPT !.dirty = TRUE ]

SpeedModifierUuid == "91AEAA56-376B-4498-935B-2F7F68070635"
GameplayModifierUuid == "00000000-0000-0000-0000-000000000001"

---------------------------------------------------------------------------
(* core/src/entityproperty.rs: the wire codec of property sets (85-187)    *)
(*                                                                         *)
(* A buffer is a sequence of bytes. A String is the sequence of its bytes, *)
(* an f64 the 8 bytes of its bit pattern, a Uuid its 16 bytes: the codec   *)
(* copies them. The props map (a BTreeMap) is a function from keys to      *)
(* properties, iterated in the order of its keys.                          *)

ModifierOperation == {"Add", "AddPercent", "Multiply"}

to_protocol_oneBased(op) ==
    CASE op = "Add" -> 1
      [] op = "AddPercent" -> 2
      [] op = "Multiply" -> 3

to_protocol(op) ==
    CASE op = "Add" -> 0
      [] op = "AddPercent" -> 1
      [] op = "Multiply" -> 2

from_protocol(proto_value) ==
    CASE proto_value = 0 -> "Add"
      [] proto_value = 1 -> "AddPercent"
      [] proto_value = 2 -> "Multiply"
      [] OTHER -> None

\* results of the readers: Ok(value) with the unread bytes, an Err, or a panic
Ok(value, rest) == [ tag |-> "Ok", value |-> value, rest |-> rest ]
Err == [ tag |-> "Err" ]
Panic == [ tag |-> "panic" ]

Drop(b, n) == SubSeq(b, n + 1, Len(b))

\* BytesMutExt / McTypeWrite and BytesExt / McTypeRead, for the types the codec uses
push_i8(b, n) == Append(b, n % U8Mod)

try_get_i8(b) == IF Len(b) < 1 THEN Err ELSE Ok(AsI8(b[1]), Drop(b, 1))

push_i32(b, n) ==
    b \o << (n \div 16777216) % U8Mod, (n \div 65536) % U8Mod, (n \div 256) % U8Mod, n % U8Mod >>

try_get_i32(b) ==
    IF Len(b) < 4 THEN Err
    ELSE Ok(AsI8(b[1]) * 16777216 + b[2] * 65536 + b[3] * 256 + b[4], Drop(b, 4))

RECURSIVE VarIntBytes(_)
\* the 7-bit groups of n as a u32, low group first, all but the last with bit 7 set
VarIntBytes(n) ==
    IF n >= 0 /\ n < 128 THEN << n >>
    ELSE << (n % 128) + 128 >> \o
         VarIntBytes(IF n >= 0 THEN n \div 128 ELSE (n \div 128) + 33554432)

push_var_int(b, n) == b \o VarIntBytes(n)

VarIntMaxBytes == 5

RECURSIVE ReadVarInt(_, _, _, _)
ReadVarInt(b, k, scale, acc) ==
    IF Len(b) < 1 \/ k > VarIntMaxBytes THEN Err
    ELSE LET bits == b[1] % 128
             value == IF k < VarIntMaxBytes THEN acc + bits * scale
                      ELSE acc + (IF bits % 16 >= 8 THEN (bits % 16) - 16 ELSE bits % 16) * scale
         IN  IF b[1] < 128 THEN Ok(value, Drop(b, 1))
             ELSE IF k = VarIntMaxBytes THEN Err
             ELSE ReadVarInt(Drop(b, 1), k + 1, scale * 128, value)

try_get_var_int(b) == ReadVarInt(b, 1, 1, 0)

F64Bytes == 8
UuidBytes == 16

push_f64(b, x) == b \o x

try_get_f64(b) == IF Len(b) < F64Bytes THEN Err ELSE Ok(SubSeq(b, 1, F64Bytes), Drop(b, F64Bytes))

push_uuid(b, u) == b \o u

try_get_uuid(b) ==
    IF Len(b) < UuidBytes THEN Err ELSE Ok(SubSeq(b, 1, UuidBytes), Drop(b, UuidBytes))

push_string(b, str) == push_var_int(b, Len(str)) \o str

try_get_string(b) ==
    LET n == try_get_var_int(b) IN
    IF n.tag # "Ok" THEN n
    ELSE IF n.value < 0 \/ n.value > Len(n.rest) THEN Err
    ELSE Ok(SubSeq(n.rest, 1, n.value), Drop(n.rest, n.value))

\* Ord of String: byte-wise lexicographic
RECURSIVE StrLess(_, _)
StrLess(a, b) ==
    IF Len(b) = 0 THEN FALSE
    ELSE IF Len(a) = 0 THEN TRUE
    ELSE IF a[1] # b[1] THEN a[1] < b[1]
    ELSE StrLess(Tail(a), Tail(b))

RECURSIVE KeysInOrder(_)
\* BTreeMap::iter: the keys in ascending order
KeysInOrder(S) ==
    IF S = {} THEN <<>>
    ELSE LET k == CHOOSE x \in S : \A y \in S \ {x} : StrLess(x, y)
         IN  << k >> \o KeysInOrder(S \ {k})

\* props.insert(key, property)
add_property(m, key, property) ==
    [ k \in (DOMAIN m) \cup {key} |-> IF k = key THEN property ELSE m[k] ]

push_modifier(b, modifier) ==
    push_i8(push_f64(push_uuid(b, modifier.uuid), modifier.amount),
            to_protocol(modifier.operation))

RECURSIVE push_modifiers(_, _, _)
push_modifiers(b, modifiers, i) ==
    IF i > Len(modifiers) THEN b
    ELSE push_modifiers(push_modifier(b, modifiers[i]), modifiers, i + 1)

push_property(b, property) ==
    push_modifiers(push_var_int(push_f64(b, property.base_value), Len(property.modifiers)),
                   property.modifiers, 1)

RECURSIVE push_entries(_, _, _, _)
push_entries(b, m, keys, i) ==
    IF i > Len(keys) THEN b
    ELSE push_entries(push_property(push_string(b, keys[i]), m[keys[i]]), m, keys, i + 1)

push_properties(b, m) ==
    push_entries(push_i32(b, Cardinality(DOMAIN m)), m, KeysInOrder(DOMAIN m), 1)

try_get_modifier(b) ==
    LET uuid == try_get_uuid(b) IN
    IF uuid.tag # "Ok" THEN uuid ELSE
    LET amount == try_get_f64(uuid.rest) IN
    IF amount.tag # "Ok" THEN amount ELSE
    LET byte == try_get_i8(amount.rest) IN
    IF byte.tag # "Ok" THEN byte ELSE
    LET operation == from_protocol(byte.value) IN
    IF operation = None
    THEN Panic  \* Option::unwrap() on a None value
    ELSE Ok(PropertyModifier_new(uuid.value, amount.value, operation), byte.rest)

RECURSIVE try_get_modifiers(_, _, _)
\* for _ in 0..num_modifiers { modifiers.push(self.try_get_modifier()?) }
try_get_modifiers(b, n, modifiers) ==
    IF n <= 0 THEN Ok(modifiers, b)
    ELSE LET modifier == try_get_modifier(b) IN
         IF modifier.tag # "Ok" THEN modifier
         ELSE try_get_modifiers(modifier.rest, n - 1, Append(modifiers, modifier.value))

try_get_property(b) ==
    LET value == try_get_f64(b) IN
    IF value.tag # "Ok" THEN value ELSE
    LET num_modifiers == try_get_var_int(value.rest) IN
    IF num_modifiers.tag # "Ok" THEN num_modifiers ELSE
    LET modifiers == try_get_modifiers(num_modifiers.rest, num_modifiers.value, <<>>) IN
    IF modifiers.tag # "Ok" THEN modifiers
    ELSE Ok([ base_value |-> value.value, modifiers |-> modifiers.value ], modifiers.rest)

RECURSIVE try_get_entries(_, _, _)
\* for _ in 0..num_props { key, property; props.insert(key, property) }
try_get_entries(b, n, m) ==
    IF n <= 0 THEN Ok(m, b)
    ELSE LET key == try_get_string(b) IN
         IF key.tag # "Ok" THEN key ELSE
         LET property == try_get_property(key.rest) IN
         IF property.tag # "Ok" THEN property
         ELSE try_get_entries(property.rest, n - 1, add_property(m, key.value, property.value))

try_get_properties(b) ==
    LET num_props == try_get_i32(b) IN
    IF num_props.tag # "Ok" THEN num_props
    ELSE try_get_entries(num_props.rest, num_props.value, <<>>)

---------------------------------------------------------------------------
(* server/src/entity/effect.rs: SpeedEffect and update_speed_effects *)

NoSpeed == [ uid |-> 0 ]

SpeedEffect_new(entity_id, level, duration, uid) ==
    [ uid |-> uid,
      entity_id |-> entity_id,
      amplifier |-> AsI8(level - 1),
      start_time |-> 0,
      duration |-> duration,
      new |-> TRUE ]

HasSpeed(e) == speed[e] # NoSpeed

ActivateSpeed_staysNew(effect, now) == [ effect EXCEPT !.start_time = now ]

\* effect.start_time = now; effect.new = false
ActivateSpeed(effect, now) == [ effect EXCEPT !.start_time = now, !.new = FALSE ]

\* properties.get_property_mut("generic.movementSpeed").unwrap().add_modifier(..)
ApplySpeedModifier(p) ==
    [ MarkDirty(p) EXCEPT !.inner.generic_movementSpeed =
          add_modifier(@, PropertyModifier_new(SpeedModifierUuid, "0.2", "Multiply")) ]

SpeedPacket(effect) ==
    [ type |-> "EntityEffect",
      entity_id |-> effect.entity_id,
      effect_id |-> protocol_id("Speed"),
      amplifier |-> effect.amplifier,
      duration |-> AsI32(effect.duration),
      flags |-> 0 ]

IsNew(e) == HasSpeed(e) /\ speed[e].new

update_speed_effects ==
    /\ ~aborted
    /\ "update_speed_effects" \in pending
    /\ LET now == tick_count
           fresh == { e \in Entities : IsNew(e) }
           pkts == ConcatFrom([ e \in Entities |->
                       IF e \in fresh
                       THEN << Broadcast(SpeedPacket(speed[e]), e, speed[e].uid, "start") >>
                       ELSE <<>> ], Entities)
       IN  /\ speed' = [ e \in Entities |->
                          IF e \in fresh THEN ActivateSpeed(speed[e], now) ELSE speed[e] ]
           /\ properties' = [ e \in Entities |->
                          IF e \in fresh THEN ApplySpeedModifier(properties[e]) ELSE properties[e] ]
           /\ sent' = sent \o pkts
           /\ startPkts' = [ u \in Uids |-> startPkts[u] + Count(pkts, u, "start") ]
           /\ modsAdded' = [ u \in Uids |->
                          modsAdded[u] + Cardinality({ e \in fresh : speed[e].uid = u }) ]
    /\ pending' = pending \ {"update_speed_effects"}
    /\ UNCHANGED <<otherVars, panic_msg, tick_count, effects, aborted, overflow_checks, nextUid, removePkts,
                   refreshed, granted, propPkts, lastNew, encoded, wire, decoded>>

---------------------------------------------------------------------------
(* server/src/entity/properties.rs: poll_entity_properties_changed *)

PropertiesPacket(e, p) ==
    [ type |-> "EntityProperties", entity_id |-> e, properties |-> p.inner ]

Polled_staysDirty(p) == p

\* properties.dirty = false
Polled(p) == [ p EXCEPT !.dirty = FALSE ]

poll_entity_properties_changed ==
    /\ ~aborted
    /\ "poll_entity_properties_changed" \in pending
    /\ LET dirty == { e \in Entities : properties[e].dirty }
           pkts == ConcatFrom([ e \in Entities |->
                       IF e \in dirty
                       THEN << Broadcast(PropertiesPacket(e, properties[e]), e, 0, "properties") >>
                       ELSE <<>> ], Entities)
       IN  /\ properties' = [ e \in Entities |->
                          IF e \in dirty THEN Polled(properties[e]) ELSE properties[e] ]
           /\ sent' = sent \o pkts
           /\ propPkts' = [ e \in Entities |-> propPkts[e] + (IF e \in dirty THEN 1 ELSE 0) ]
    /\ pending' = pending \ {"poll_entity_properties_changed"}
    /\ UNCHANGED <<otherVars, panic_msg, tick_count, effects, speed, aborted, overflow_checks, nextUid, startPkts,
                   removePkts, refreshed, granted, modsAdded, lastNew, encoded, wire, decoded>>

---------------------------------------------------------------------------
(* update_basic_effects (effect.rs 116-180) *)

\* Vec::remove: "removal index (is i) should be < len (is n)"
RemovalIndexPanic == "removal index should be < len"

\* overflow checks: "attempt to subtract with overflow"
OverflowPanic == "attempt to subtract with overflow"

update_basic_effects ==
    /\ ~aborted
    /\ "update_basic_effects" \in pending
    /\ LET now == tick_count
           act == [ e \in Entities |-> ActivateAll(effects[e], now) ]
           starts == ConcatFrom([ e \in Entities |-> StartPackets(effects[e], e) ], Entities)
           exp == IF ExpirationDue(now)
                  THEN ExpirePhase(act, now)
                  ELSE [ effects |-> act, packets |-> <<>>, panicked |-> FALSE ]
       IN  /\ effects' = exp.effects
           /\ startPkts' = [ u \in Uids |-> startPkts[u] + Count(starts, u, "start") ]
           /\ removePkts' = [ u \in Uids |-> removePkts[u] + Count(exp.packets, u, "remove") ]
           /\ IF exp.panicked
              THEN /\ sent' = sent \o starts
                   /\ aborted' = TRUE
                   /\ panic_msg' = RemovalIndexPanic
                   /\ UNCHANGED refreshed
              ELSE \E order \in Perms(NetworkEntities) :
                     LET rs == ResyncPhase(exp.effects, now, overflow_checks, order) IN
                     /\ sent' = sent \o starts \o exp.packets \o rs.packets
                     /\ aborted' = rs.panicked
                     /\ panic_msg' = (IF rs.panicked THEN OverflowPanic ELSE panic_msg)
                     /\ refreshed' = [ u \in Uids |-> refreshed[u] \cup
                            { rs.packets[i].packet.duration :
                                i \in { j \in DOMAIN rs.packets : rs.packets[j].uid = u } } ]
    /\ pending' = pending \ {"update_basic_effects"}
    /\ UNCHANGED <<otherVars, tick_count, speed, properties, overflow_checks, nextUid, granted,
                   modsAdded, propPkts, lastNew, encoded, wire, decoded>>

---------------------------------------------------------------------------
(* Gameplay code: granting effects and mutating properties *)

SpeedDurations == {600}

\* BasicStatusEffect::new(..) and, on Ok, a push onto the entity's collection
AddBasicEffect(e, level, duration, effect_type, flags) ==
    /\ ~aborted
    /\ LET r == BasicStatusEffect_new(e, level, duration, effect_type, flags, nextUid) IN
       /\ lastNew' = [ tag |-> r.tag, effect_type |-> effect_type ]
       /\ IF r.tag = "Ok"
          THEN /\ effects' = [ effects EXCEPT ![e] = Append(@, r.value) ]
               /\ granted' = [ granted EXCEPT ![nextUid] = "basic" ]
               /\ nextUid' = nextUid + 1
          ELSE UNCHANGED <<effects, granted, nextUid>>
    /\ UNCHANGED <<otherVars, panic_msg, tick_count, speed, properties, sent, pending, aborted, overflow_checks,
                   startPkts, removePkts, refreshed, modsAdded, propPkts, encoded, wire,
                   decoded>>

\* SpeedEffect::new(..) added to the entity as its SpeedEffect component
AddSpeedEffect(e, level, duration) ==
    /\ ~aborted
    /\ speed' = [ speed EXCEPT ![e] = SpeedEffect_new(e, level, duration, nextUid) ]
    /\ granted' = [ granted EXCEPT ![nextUid] = "speed" ]
    /\ nextUid' = nextUid + 1
    /\ UNCHANGED <<otherVars, panic_msg, tick_count, effects, properties, sent, pending, aborted, overflow_checks,
                   startPkts, removePkts, refreshed, modsAdded, propPkts, lastNew, encoded,
                   wire, decoded>>

\* gameplay code adds a modifier of its own to a property of the entity
MutateProperty(e) ==
    /\ ~aborted
    /\ Len(properties[e].inner.generic_maxHealth.modifiers) < MaxMutations
    /\ properties' = [ properties EXCEPT ![e] =
          [ MarkDirty(@) EXCEPT !.inner.generic_maxHealth =
                add_modifier(@, PropertyModifier_new(GameplayModifierUuid, "4.0", "Add")) ] ]
    /\ UNCHANGED <<otherVars, panic_msg, tick_count, effects, speed, sent, pending, aborted, overflow_checks,
                   nextUid, startPkts, removePkts, refreshed, granted, modsAdded, propPkts,
                   lastNew, encoded, wire, decoded>>

\* the simulation loop: every system has run, the tick counter advances
AdvanceTick(systems, maxTick) ==
    /\ ~aborted
    /\ pending = {}
    /\ tick_count < maxTick
    /\ tick_count' = tick_count + 1
    /\ pending' = systems
    /\ sent' = <<>>
    /\ UNCHANGED <<otherVars, panic_msg, effects, speed, properties, aborted, overflow_checks, nextUid, startPkts,
                   removePkts, refreshed, granted, modsAdded, propPkts, lastNew, encoded,
                   wire, decoded>>

---------------------------------------------------------------------------
(* The catalog's conversions, applied to every kind and to every i8 *)

I8 == (-I8Max - 1)..I8Max

EncodeDecode(k) ==
    /\ encoded' = k
    /\ wire' = protocol_id(k)
    /\ decoded' = from_protocol_id(protocol_id(k), overflow_checks)
    /\ UNCHANGED <<otherVars, panic_msg, tick_count, effects, speed, properties, sent, pending, aborted,
                   overflow_checks, nextUid, startPkts, removePkts, refreshed, granted,
                   modsAdded, propPkts, lastNew>>

DecodeWire(id) ==
    /\ encoded' = None
    /\ wire' = id
    /\ decoded' = from_protocol_id(id, overflow_checks)
    /\ UNCHANGED <<otherVars, panic_msg, tick_count, effects, speed, properties, sent, pending, aborted,
                   overflow_checks, nextUid, startPkts, removePkts, refreshed, granted,
                   modsAdded, propPkts, lastNew>>

---------------------------------------------------------------------------
(* The codec of property sets: a set is built, written, read and written again *)

\* the state of the effect scheduler
schedulerVars == <<tick_count, effects, speed, properties, sent, pending, aborted,
                   overflow_checks, nextUid, startPkts, removePkts, refreshed, granted,
                   modsAdded, propPkts, lastNew, encoded, wire, decoded, panic_msg>>

\* what the codec never touches
notCodecVars == <<schedulerVars, despawnVars, blockVars>>

\* "b" and "ab" as Strings
Keys == { <<98>>, <<97, 98>> }

\* 20.0 and 0.2 as f64
BaseValues == { <<64, 52, 0, 0, 0, 0, 0, 0>> }
Amounts == { <<63, 201, 153, 153, 153, 153, 153, 154>> }

\* the bytes of 91AEAA56-376B-4498-935B-2F7F68070635 and of a second id
UuidValues ==
    { <<145, 174, 170, 86, 55, 107, 68, 152, 147, 91, 47, 127, 104, 7, 6, 53>>,
      <<0, 0, 0, 0, 0, 0, 0, 0, 0, 0, 0, 0, 0, 0, 0, 1>> }

\* operation bytes a peer may send that are no operation code
UnknownOperationBytes == { 3, 255 }

\* props.add_property(key, EntityProperty::new(base_value))
BuildProperty(key, base_value) ==
    /\ read.tag = "none"
    /\ Cardinality((DOMAIN props) \cup {key}) <= MaxProperties
    /\ props' = add_property(props, key, EntityProperty_new(base_value))
    /\ UNCHANGED <<notCodecVars, buf, read, rebuf>>

\* props.get_property_mut(key).unwrap().add_modifier(PropertyModifier::new(..))
BuildModifier(key, uuid, amount, operation) ==
    /\ read.tag = "none"
    /\ key \in DOMAIN props
    /\ Len(props[key].modifiers) < MaxModifiers
    /\ props' = [ props EXCEPT ![key] =
                    add_modifier(@, PropertyModifier_new(uuid, amount, operation)) ]
    /\ UNCHANGED <<notCodecVars, buf, read, rebuf>>

\* the buffer is read, and what was read is written to a second buffer
ReadBack(b) ==
    LET r == try_get_properties(b) IN
    /\ read' = r
    /\ rebuf' = IF r.tag = "Ok" THEN push_properties(<<>>, r.value) ELSE <<>>

\* push_properties writes the set to an empty buffer, which is then read back
WriteAndRead ==
    /\ read.tag = "none"
    /\ buf' = push_properties(<<>>, props)
    /\ ReadBack(buf')
    /\ UNCHANGED <<notCodecVars, props>>

RECURSIVE OperationOffsetsFrom(_, _, _, _)
\* the positions of the operation bytes in the bytes push_properties writes for m,
\* for the keys from the i-th on, the i-th entry starting after `at` bytes
OperationOffsetsFrom(m, keys, i, at) ==
    IF i > Len(keys) THEN {}
    ELSE LET n == Len(m[keys[i]].modifiers)
             head == at + Len(push_string(<<>>, keys[i])) + F64Bytes + Len(VarIntBytes(n))
             each == UuidBytes + F64Bytes + 1
         IN  { head + j * each : j \in 1..n }
                 \cup OperationOffsetsFrom(m, keys, i + 1, head + n * each)

OperationOffsets(m) == OperationOffsetsFrom(m, KeysInOrder(DOMAIN m), 1, 4)

\* a peer sends the bytes of the set with one operation byte that is no operation code
ReadUnknownOperation(i, byte) ==
    /\ read.tag = "Ok"
    /\ buf = push_properties(<<>>, props)
    /\ i \in OperationOffsets(props)
    /\ buf' = [ buf EXCEPT ![i] = byte ]
    /\ ReadBack(buf')
    /\ UNCHANGED <<notCodecVars, props>>

---------------------------------------------------------------------------
(* server/entity/src/broadcasters/entity_deletion.rs *)

\* what the despawn broadcaster never touches
notDespawnVars == <<schedulerVars, codecVars, blockVars>>

\* Option<Entity>::None
NoEntity == 0

BlocksPerChunk == 16
ViewDistance == 8

\* Position::chunk(), along one axis
chunk(pos) == pos \div BlocksPerChunk

\* the entity at `at` is within the view distance of the player at `of`
InRange(of, at) ==
    /\ chunk(of) - chunk(at) <= ViewDistance
    /\ chunk(at) - chunk(of) <= ViewDistance

IsPlayer(w, p) == p \in DOMAIN w /\ w[p].player

\* game.broadcast_entity_update(world, packet, entity, neq): to every player that
\* can see the entity, except neq
broadcast_entity_update(w, inb, packet, entity, neq) ==
    [ p \in DOMAIN inb |->
        IF IsPlayer(w, p) /\ p # neq /\ InRange(w[p].pos, w[entity].pos)
        THEN Append(inb[p], packet) ELSE inb[p] ]

\* game.broadcast_global(world, packet, neq): to every player, except neq
broadcast_global(w, inb, packet, neq) ==
    [ p \in DOMAIN inb |->
        IF IsPlayer(w, p) /\ p # neq THEN Append(inb[p], packet) ELSE inb[p] ]

DestroyEntities(id) == [ type |-> "DestroyEntities", entity_ids |-> << id >> ]

PlayerInfo(uuid) == [ type |-> "PlayerInfo", action |-> "RemovePlayer", uuid |-> uuid ]

DespawnExclude_none(entity) == NoEntity

\* Some(event.entity)
DespawnExclude(entity) == entity

\* the body of on_entity_despawn_broadcast_despawn: the inboxes after it
broadcast_despawn(w, inb, entity) ==
    LET id == w[entity].id
        seen == broadcast_entity_update(w, inb, DestroyEntities(id), entity,
                                        DespawnExclude(entity))
    IN  IF w[entity].player
        THEN broadcast_global(w, seen, PlayerInfo(w[entity].uuid), NoEntity)
        ELSE seen

\* an EntityDespawnEvent for the entity is handled; the entity then leaves the world
on_entity_despawn_broadcast_despawn(entity) ==
    /\ entity \in DOMAIN world
    /\ inbox' = broadcast_despawn(world, inbox, entity)
    /\ world' = [ x \in (DOMAIN world) \ {entity} |-> world[x] ]
    /\ UNCHANGED notDespawnVars

---------------------------------------------------------------------------
(* server/src/entity/block.rs: block entities *)

\* what the block entity systems never touch
notBlockVars == <<schedulerVars, codecVars, despawnVars>>

BlockPositions == { 1, 2 }

Blocks == { "Air", "Chest", "Furnace" }

\* the blocks with a BlockEntityRegistration (BlockEntityRegistry)
Registered == { "Chest", "Furnace" }

\* chunk_map.block_at of a position in no loaded chunk
NoChunk == "NoChunk"

BlockSystems == { "BlockEntityCreateSystem", "BlockEntityDestroySystem", "EntityDestroySystem" }

\* block_events.read(reader): the events written since the system's last read
Unread(channel, system) == SubSeq(channel, reader[system] + 1, Len(channel))

\* registry.0.get(&block)
registry_get(block) == IF block \in Registered THEN block ELSE None

block_seen_newBlock(cm, event) == event.new_block

\* chunk_map.block_at(event.pos).unwrap_or(Block::Air)
block_seen(cm, event) == IF cm[event.pos] = NoChunk THEN "Air" ELSE cm[event.pos]

\* HashMap::insert
map_insert(map, key, value) ==
    [ k \in (DOMAIN map) \cup {key} |-> IF k = key THEN value ELSE map[k] ]

AlreadyProcessed_never(processed, pos) == FALSE

\* !processed.insert(event.pos): the position was handled earlier in this run
AlreadyProcessed(processed, pos) == pos \in processed

RECURSIVE CreateLoop(_, _, _, _, _, _)
\* for event in block_events.read(..): processed is the HashSet of the run, be the
\* BlockEntities map, comps the entities built so far
CreateLoop(events, i, processed, be, comps, cm) ==
    IF i > Len(events) THEN [ block_entities |-> be, components |-> comps ]
    ELSE LET event == events[i] IN
         IF AlreadyProcessed(processed, event.pos)
         THEN CreateLoop(events, i + 1, processed, be, comps, cm)
         ELSE LET registration == registry_get(block_seen(cm, event))
                  entity == Cardinality(DOMAIN comps) + 1
              IN  IF registration # None
                  THEN CreateLoop(events, i + 1, processed \cup {event.pos},
                                  map_insert(be, event.pos, entity),
                                  map_insert(comps, entity,
                                             [ creator |-> registration,
                                               BlockPositionComponent |-> event.pos ]),
                                  cm)
                  ELSE CreateLoop(events, i + 1, processed \cup {event.pos}, be, comps, cm)

\* BlockEntityCreateSystem::run, and the maintain that builds the entities
BlockEntityCreateSystem_run ==
    LET r == CreateLoop(Unread(block_events, "BlockEntityCreateSystem"), 1, {},
                        block_entities, components, chunk_map)
    IN  /\ reader["BlockEntityCreateSystem"] < Len(block_events)
        /\ block_entities' = r.block_entities
        /\ components' = r.components
        /\ alive' = alive \cup ((DOMAIN r.components) \ (DOMAIN components))
        /\ reader' = [ reader EXCEPT !["BlockEntityCreateSystem"] = Len(block_events) ]
        /\ UNCHANGED <<notBlockVars, chunk_map, block_events, destroy_events>>

Changed_always(event) == TRUE

\* event.old_block != event.new_block
Changed(event) == event.old_block # event.new_block

EntityDestroyEvent(entity) == [ entity |-> entity ]

RECURSIVE DestroyLoop(_, _, _, _)
\* for event in update_events.read(..)
DestroyLoop(events, i, be, out) ==
    IF i > Len(events) THEN out
    ELSE IF Changed(events[i]) /\ events[i].pos \in DOMAIN be
    THEN DestroyLoop(events, i + 1, be, Append(out, EntityDestroyEvent(be[events[i].pos])))
    ELSE DestroyLoop(events, i + 1, be, out)

\* BlockEntityDestroySystem::run
BlockEntityDestroySystem_run ==
    /\ reader["BlockEntityDestroySystem"] < Len(block_events)
    /\ destroy_events' = DestroyLoop(Unread(block_events, "BlockEntityDestroySystem"), 1,
                                     block_entities, destroy_events)
    /\ reader' = [ reader EXCEPT !["BlockEntityDestroySystem"] = Len(block_events) ]
    /\ UNCHANGED <<notBlockVars, chunk_map, block_events, block_entities, components, alive>>

\* crate::entity::destroy::EntityDestroySystem and the maintain after it: the
\* entities of the EntityDestroyEvents written since its last run are deleted
EntityDestroySystem_run ==
    /\ reader["EntityDestroySystem"] < Len(destroy_events)
    /\ alive' = alive \ { Unread(destroy_events, "EntityDestroySystem")[i].entity :
                              i \in 1..(Len(destroy_events) - reader["EntityDestroySystem"]) }
    /\ reader' = [ reader EXCEPT !["EntityDestroySystem"] = Len(destroy_events) ]
    /\ UNCHANGED <<notBlockVars, chunk_map, block_events, destroy_events, block_entities,
                   components>>

\* the world sets the block at a position of a loaded chunk and triggers the
\* BlockUpdateEvent of the change
set_block_at(pos, block) ==
    /\ chunk_map[pos] # NoChunk
    /\ chunk_map' = [ chunk_map EXCEPT ![pos] = block ]
    /\ block_events' = Append(block_events,
                               [ pos |-> pos, old_block |-> chunk_map[pos], new_block |-> block ])
    /\ UNCHANGED <<notBlockVars, destroy_events, reader, block_entities, components, alive>>

\* the chunk of a position is unloaded
unload_chunk(pos) ==
    /\ chunk_map[pos] # NoChunk
    /\ chunk_map' = [ chunk_map EXCEPT ![pos] = NoChunk ]
    /\ UNCHANGED <<notBlockVars, block_events, destroy_events, reader, block_entities,
                   components, alive>>

---------------------------------------------------------------------------
(* Specifications *)

BasicSystems == {"update_basic_effects"}
SpeedSystems == {"update_speed_effects", "poll_entity_properties_changed"}

InitScheduler(systems, dirtyFlags, builds) ==
    /\ tick_count = 0
    /\ effects = [ e \in Entities |-> <<>> ]
    /\ speed = [ e \in Entities |-> NoSpeed ]
    /\ properties \in [ Entities -> { [ dirty |-> d, inner |-> EntityProperties_new ] :
                                        d \in dirtyFlags } ]
    /\ sent = <<>>
    /\ pending = systems
    /\ aborted = FALSE
    /\ overflow_checks \in builds
    /\ nextUid = 1
    /\ startPkts = [ u \in Uids |-> 0 ]
    /\ removePkts = [ u \in Uids |-> 0 ]
    /\ refreshed = [ u \in Uids |-> {} ]
    /\ granted = [ u \in Uids |-> "none" ]
    /\ modsAdded = [ u \in Uids |-> 0 ]
    /\ propPkts = [ e \in Entities |-> 0 ]
    /\ lastNew = [ tag |-> "none", effect_type |-> None ]
    /\ encoded = None
    /\ wire = 0
    /\ decoded = None
    /\ panic_msg = "none"

\* an empty buffer and nothing read
InitBuffers ==
    /\ props = <<>>
    /\ buf = <<>>
    /\ read = [ tag |-> "none" ]
    /\ rebuf = <<>>

\* a world without entities
InitEmptyWorld ==
    /\ world = <<>>
    /\ inbox = <<>>

\* loaded chunks of air, no events, no block entities
InitBlocks ==
    /\ chunk_map = [ pos \in BlockPositions |-> "Air" ]
    /\ block_events = <<>>
    /\ destroy_events = <<>>
    /\ reader = [ system \in BlockSystems |-> 0 ]
    /\ block_entities = <<>>
    /\ components = <<>>
    /\ alive = {}

InitWith(systems, dirtyFlags, builds) ==
    /\ InitScheduler(systems, dirtyFlags, builds)
    /\ InitBuffers
    /\ InitEmptyWorld
    /\ InitBlocks

\* basic effects with durations of a few ticks
Init == InitWith(BasicSystems, {FALSE}, BOOLEAN)

GrantBasic ==
    \E e \in Entities, level \in Levels, d \in ShortDurations, f \in FlagSet :
        /\ nextUid <= MaxGrants
        /\ tick_count < GrantWindow
        /\ AddBasicEffect(e, level, d, "Poison", f)

Tick == AdvanceTick(BasicSystems, MaxTick)

Next == GrantBasic \/ update_basic_effects \/ Tick

Spec == Init /\ [][Next]_vars

\* basic effects with durations of several resync periods, granted in the first ticks
GrantLong ==
    \E e \in NetworkEntities, level \in Levels, d \in LongDurations, f \in FlagSet :
        /\ nextUid <= MaxLongGrants
        /\ tick_count < GrantWindow
        /\ AddBasicEffect(e, level, d, "Poison", f)

TickLong == AdvanceTick(BasicSystems, MaxLongTick)

NextLong == GrantLong \/ update_basic_effects \/ TickLong

SpecLong == Init /\ [][NextLong]_vars

\* speed effects and the property poll
InitSpeed == InitWith(SpeedSystems, BOOLEAN, {FALSE})

GrantSpeed ==
    \E e \in Entities, level \in Levels, d \in SpeedDurations :
        nextUid <= MaxSpeedGrants /\ AddSpeedEffect(e, level, d)

Mutate == \E e \in Entities : MutateProperty(e)

TickSpeed == AdvanceTick(SpeedSystems, MaxSpeedTick)

NextSpeed ==
    GrantSpeed \/ Mutate \/ update_speed_effects \/ poll_entity_properties_changed \/ TickSpeed

SpecSpeed == InitSpeed /\ [][NextSpeed]_vars

\* the catalog's conversions
Encode == \E k \in StatusEffect : EncodeDecode(k)

Decode == \E id \in I8 : DecodeWire(id)

NextCatalog == Encode \/ Decode

SpecCatalog == Init /\ [][NextCatalog]_vars

\* BasicStatusEffect::new for every kind of the catalog
Construct ==
    \E k \in StatusEffect, e \in Entities, level \in Levels, d \in ShortDurations, f \in FlagSet :
        /\ nextUid <= MaxConstructs
        /\ AddBasicEffect(e, level, d, k, f)

NextNew == Construct

SpecNew == Init /\ [][NextNew]_vars

\* basic effects that start, expire and are refreshed on the same tick: granted on
\* any tick, with a duration of one expiration period or of that and a resync period
OrderDurations == { ExpirePeriod, ExpirePeriod + ResyncPeriod }

GrantOrder ==
    \E e \in NetworkEntities, level \in Levels, d \in OrderDurations, f \in FlagSet :
        /\ nextUid <= MaxOrderGrants
        /\ AddBasicEffect(e, level, d, "Poison", f)

TickOrder == AdvanceTick(BasicSystems, MaxOrderTick)

NextOrder == GrantOrder \/ update_basic_effects \/ TickOrder

SpecOrder == Init /\ [][NextOrder]_vars

\* despawn events in worlds of items and players, near and far
EntityHandles == 1..MaxEntities

\* block coordinates along one axis
Positions == { 0, 10, 10000 }

Worlds ==
    { [ e \in EntityHandles |->
          [ id |-> 100 + e, uuid |-> 200 + e, pos |-> pos[e], player |-> player[e] ] ] :
        pos \in [EntityHandles -> Positions], player \in [EntityHandles -> BOOLEAN] }

InitDespawn ==
    /\ InitScheduler(BasicSystems, {FALSE}, {FALSE})
    /\ InitBuffers
    /\ InitBlocks
    /\ world \in Worlds
    /\ inbox = [ e \in EntityHandles |-> <<>> ]

Despawn == \E entity \in EntityHandles : on_entity_despawn_broadcast_despawn(entity)

NextDespawn == Despawn

SpecDespawn == InitDespawn /\ [][NextDespawn]_vars

\* block updates and the block entity systems, run in any order
BlockUpdate ==
    \E pos \in BlockPositions, block \in Blocks :
        Len(block_events) < MaxBlockUpdates /\ set_block_at(pos, block)

Unload == \E pos \in BlockPositions : unload_chunk(pos)

NextBlocks ==
    \/ BlockUpdate
    \/ Unload
    \/ BlockEntityCreateSystem_run
    \/ BlockEntityDestroySystem_run
    \/ EntityDestroySystem_run

SpecBlocks == Init /\ [][NextBlocks]_vars

\* the dispatcher runs every system again and again
SpecBlocksFair ==
    /\ SpecBlocks
    /\ WF_vars(BlockEntityCreateSystem_run)
    /\ WF_vars(BlockEntityDestroySystem_run)
    /\ WF_vars(EntityDestroySystem_run)

\* the codec of property sets
Build ==
    \/ \E key \in Keys, v \in BaseValues : BuildProperty(key, v)
    \/ \E key \in Keys, u \in UuidValues, amount \in Amounts, op \in ModifierOperation :
           BuildModifier(key, u, amount, op)

Tampered == \E i \in 1..Len(buf), byte \in UnknownOperationBytes : ReadUnknownOperation(i, byte)

NextCodec == Build \/ WriteAndRead \/ Tampered

InitCodec == InitWith(BasicSystems, {FALSE}, {FALSE})

SpecCodec == InitCodec /\ [][NextCodec]_vars

---------------------------------------------------------------------------
(* Claims *)

AllEffects == UNION { { effects[e][i] : i \in DOMAIN effects[e] } : e \in Entities }

Present(u) == \E x \in AllEffects : x.uid = u

\* update_basic_effects has run in the current tick
RanBasic == "update_basic_effects" \notin pending

RanSpeed == "update_speed_effects" \notin pending

RanPoll == "poll_entity_properties_changed" \notin pending

\* the packets a step has added to sent
NewlySent == SubSeq(sent', Len(sent) + 1, Len(sent'))

\* C1: once update_basic_effects has completed in a tick, every effect left in a
\* collection is active, none is left with now - start_tick >= D on a tick with
\* now mod 5 = 0, and none is left with now - start_tick > D + 4.
C1_ExpiredEffectsRemoved ==
    (RanBasic /\ ~aborted) =>
        \A x \in AllEffects :
            /\ x.time_start >= 0 =>
                 /\ tick_count % ExpirePeriod = 0 => tick_count - x.time_start < x.duration
                 /\ tick_count - x.time_start <= x.duration + (ExpirePeriod - 1)

\* C2: no effect gets two RemoveEntityEffect packets; an effect that has left its
\* collection has got exactly one, an effect still in its collection has got none,
\* and after a completed expiration phase no expired effect is still in a collection.
C2_OneRemovePacketPerExpired ==
    \A u \in Uids :
        granted[u] = "basic" =>
            /\ removePkts[u] <= 1
            /\ ~aborted => (Present(u) <=> removePkts[u] = 0)
            /\ (RanBasic /\ ~aborted /\ tick_count % ExpirePeriod = 0) =>
                   \A x \in AllEffects :
                       x.uid = u => x.time_start + x.duration > tick_count

\* C3, the state part: no effect ever has more than one start packet, and an effect
\* in a collection is active exactly if its start packet has been broadcast.
C3_StartPacketOnce ==
    /\ \A u \in Uids : granted[u] = "basic" => startPkts[u] <= 1
    /\ \A x \in AllEffects : (x.time_start >= 0) <=> (startPkts[x.uid] = 1)

\* C3, the step part: a run of update_basic_effects stamps every pending effect with
\* the current tick and broadcasts one start packet for it; no step changes the
\* duration of an effect, or the time_start or the start packets of an active one.
C3_StampStep ==
    \A x \in AllEffects :
        /\ (x.time_start < 0 /\ ~RanBasic /\ RanBasic') =>
               /\ startPkts'[x.uid] = startPkts[x.uid] + 1
               /\ Count(NewlySent, x.uid, "start") = 1
               /\ \A y \in AllEffects' : y.uid = x.uid => y.time_start = tick_count
        /\ x.time_start >= 0 =>
               /\ startPkts'[x.uid] = startPkts[x.uid]
               /\ \A y \in AllEffects' : y.uid = x.uid => y.time_start = x.time_start
        /\ \A y \in AllEffects' : y.uid = x.uid => y.duration = x.duration

\* C3: each pending effect is stamped with the tick of the first run of
\* update_basic_effects after its creation and gets its start packet then, exactly
\* once; afterwards its time_start and duration never change and no second start
\* packet is broadcast for it.
C3_ActivatedExactlyOnce == []C3_StartPacketOnce /\ [][C3_StampStep]_vars

\* an effect activated in an earlier tick shares its collection with one that was
\* added and activated later
C3_Witness ==
    \E e \in Entities : \E i, j \in DOMAIN effects[e] :
        /\ effects[e][i].time_start >= 0
        /\ effects[e][j].time_start > effects[e][i].time_start
        /\ tick_count > effects[e][j].time_start

\* C4: BasicStatusEffect::new with a kind that needs specialized handling returns an
\* error, and no collection changes.
C4_SpecializedKindRejected ==
    lastNew.effect_type \in SpecializedKinds =>
        /\ lastNew.tag = "Err"
        /\ \A e \in Entities : effects[e] = <<>>

PropertiesPackets(pkts, e) ==
    { i \in DOMAIN pkts : pkts[i].phase = "properties" /\ pkts[i].chunk = e }

\* C5, the step part: a poll broadcasts, for every dirty entity, one EntityProperties
\* packet with the full set and clears the flag; for every other entity it
\* broadcasts nothing and leaves the set as it is.
C5_PollStep ==
    (~RanPoll /\ RanPoll') =>
        \A e \in Entities :
            IF properties[e].dirty
            THEN /\ Cardinality(PropertiesPackets(NewlySent, e)) = 1
                 /\ \A i \in PropertiesPackets(NewlySent, e) :
                        NewlySent[i].packet =
                            [ type |-> "EntityProperties", entity_id |-> e,
                              properties |-> properties[e].inner ]
                 /\ propPkts'[e] = propPkts[e] + 1
                 /\ properties'[e] = [ dirty |-> FALSE, inner |-> properties[e].inner ]
            ELSE /\ PropertiesPackets(NewlySent, e) = {}
                 /\ propPkts'[e] = propPkts[e]
                 /\ properties'[e] = properties[e]

\* C5: the dirty-flag protocol of poll_entity_properties_changed.
C5_DirtyFlagProtocol == [][C5_PollStep]_vars

\* an entity that started dirty and was never mutated has got one packet after the
\* polls of three ticks
C5_Witness ==
    \E e \in Entities :
        /\ tick_count >= 2
        /\ RanPoll
        /\ propPkts[e] = 1
        /\ ~properties[e].dirty
        /\ \A k \in PropertyNames : properties[e].inner[k].modifiers = <<>>

C7_RefreshOnlyAt1200And600 ==
    \A x \in AllEffects :
        x.duration = 2 * ResyncPeriod =>
            refreshed[x.uid] \subseteq { 2 * ResyncPeriod, ResyncPeriod }

SpeedModifiers(e) ==
    { i \in DOMAIN properties[e].inner.generic_movementSpeed.modifiers :
        properties[e].inner.generic_movementSpeed.modifiers[i].uuid = SpeedModifierUuid }

\* C8, the state part: a SpeedEffect adds at most one modifier and gets at most one
\* start packet, and it has done both exactly if it is no longer new.
C8_ActivatedAtMostOnce ==
    /\ \A u \in Uids : granted[u] = "speed" => modsAdded[u] <= 1 /\ startPkts[u] <= 1
    /\ \A e \in Entities :
           HasSpeed(e) =>
               /\ modsAdded[speed[e].uid] = (IF speed[e].new THEN 0 ELSE 1)
               /\ startPkts[speed[e].uid] = (IF speed[e].new THEN 0 ELSE 1)

\* C8, the step part: a run of update_speed_effects on a new effect adds one Multiply
\* modifier to generic.movementSpeed, clears new, stamps start_time and broadcasts
\* one start packet; on an effect that is not new it changes nothing.
C8_SpeedStep ==
    (~RanSpeed /\ RanSpeed') =>
        \A e \in Entities :
            HasSpeed(e) =>
                IF speed[e].new
                THEN /\ speed'[e] = [ speed[e] EXCEPT !.new = FALSE, !.start_time = tick_count ]
                     /\ properties'[e].inner.generic_movementSpeed.modifiers =
                            Append(properties[e].inner.generic_movementSpeed.modifiers,
                                   [ uuid |-> SpeedModifierUuid, amount |-> "0.2",
                                     operation |-> "Multiply" ])
                     /\ Count(NewlySent, speed[e].uid, "start") = 1
                ELSE /\ speed'[e] = speed[e]
                     /\ properties'[e].inner = properties[e].inner
                     /\ Count(NewlySent, speed[e].uid, "start") = 0

\* C8: update_speed_effects activates each SpeedEffect exactly once.
C8_SpeedActivatedOnce == []C8_ActivatedAtMostOnce /\ [][C8_SpeedStep]_vars

\* a SpeedEffect activated in an earlier tick has been visited again
C8_Witness ==
    \E e \in Entities :
        /\ HasSpeed(e)
        /\ ~speed[e].new
        /\ speed[e].start_time < tick_count
        /\ RanSpeed
        /\ modsAdded[speed[e].uid] = 1

\* C9: generic.movementSpeed holds at most one modifier with the speed effect's id.
C9_AtMostOneSpeedModifier ==
    \A e \in Entities : Cardinality(SpeedModifiers(e)) <= 1

\* C10: for the kind k last encoded, the wire id is k's enumeration index plus 1
\* (so in 1..32), decoding it gives k back, and no other kind has that id.
C10_ProtocolIdRoundTrip ==
    encoded # None =>
        /\ decoded = encoded
        /\ wire \in 1..Len(StatusEffectVariants)
        /\ StatusEffectVariants[wire] = encoded
        /\ \A k \in StatusEffect : protocol_id(k) = wire => k = encoded

\* the last kind of the catalog has been encoded and decoded
C10_Witness ==
    /\ encoded = "HeroOfTheVillage"
    /\ wire = Len(StatusEffectVariants)
    /\ decoded = "HeroOfTheVillage"

\* C11: the bytes push_properties writes for a set built with add_property and
\* add_modifier are read by try_get_properties completely and without error, the
\* set that is read is the set that was written, and push_properties writes the
\* same bytes for it: same count, order, base values, modifiers and operation codes.
C11_CodecRoundTrip ==
    (read.tag # "none" /\ buf = push_properties(<<>>, props)) =>
        /\ read.tag = "Ok"
        /\ read.rest = <<>>
        /\ read.value = props
        /\ rebuf = buf
        /\ \A i \in OperationOffsets(props) : buf[i] \in {0, 1, 2}

\* two properties, the first in key order with two modifiers of different
\* operations and the second with none, have been written, read and written again
C11_Witness ==
    /\ read.tag = "Ok"
    /\ rebuf = buf
    /\ Cardinality(DOMAIN props) = 2
    /\ \E k1, k2 \in DOMAIN props :
           /\ StrLess(k1, k2)
           /\ Len(props[k1].modifiers) = 2
           /\ props[k1].modifiers[1].operation = "Multiply"
           /\ props[k1].modifiers[2].operation = "Add"
           /\ props[k2].modifiers = <<>>

\* C12: when the buffer holds a modifier whose operation byte is not 0, 1 or 2,
\* try_get_properties returns an Err: it neither returns a set nor panics.
C12_UnknownOperationIsErr ==
    (/\ read.tag # "none"
     /\ \E i \in OperationOffsets(props) : i <= Len(buf) /\ buf[i] \notin {0, 1, 2})
        => read.tag = "Err"

UidsOf(effs) == { effs[i].uid : i \in DOMAIN effs }

\* C13, the step: a run of update_basic_effects on a tick with now mod 5 # 0 leaves
\* every collection with the effects it had, in their order, and broadcasts no
\* RemoveEntityEffect packet.
C13_ThrottledStep ==
    (~RanBasic /\ RanBasic' /\ tick_count % ExpirePeriod # 0) =>
        /\ \A e \in Entities :
               /\ Len(effects'[e]) = Len(effects[e])
               /\ \A i \in DOMAIN effects[e] : effects'[e][i].uid = effects[e][i].uid
        /\ removePkts' = removePkts
        /\ \A i \in DOMAIN NewlySent : NewlySent[i].packet.type # "RemoveEntityEffect"

\* C13: the expiration phase runs only on ticks with now mod 5 = 0.
C13_ExpirationThrottled == [][C13_ThrottledStep]_vars

\* update_basic_effects has run on a tick with now mod 5 # 0 and has left an
\* effect whose start_tick + duration <= now in its collection
C13_Witness ==
    /\ RanBasic
    /\ ~aborted
    /\ tick_count % ExpirePeriod # 0
    /\ \E x \in AllEffects :
           x.time_start >= 0 /\ x.time_start + x.duration <= tick_count

PhaseRank(phase) ==
    CASE phase = "start" -> 1
      [] phase = "remove" -> 2
      [] phase = "refresh" -> 3
      [] OTHER -> 0

\* the packets of the current tick are in the order of the phases, and an effect
\* with a remove or a refresh packet has had its start packet
C14_PhasesInOrder ==
    /\ \A i, j \in DOMAIN sent :
           i < j => PhaseRank(sent[i].phase) <= PhaseRank(sent[j].phase)
    /\ \A u \in Uids : (removePkts[u] > 0 \/ refreshed[u] # {}) => startPkts[u] = 1

\* C14: within a tick all start packets come before all remove packets and these
\* before all refresh packets; an effect's start packet precedes its remove and
\* refresh packets; and no effect that the expiration phase has removed in the tick
\* (its RemoveEntityEffect packet is among the tick's packets) gets a refresh
\* packet in that tick.
C14_PhaseOrder ==
    /\ C14_PhasesInOrder
    /\ \A i, j \in DOMAIN sent :
           (sent[i].phase = "remove" /\ sent[j].phase = "refresh") => sent[i].uid # sent[j].uid

\* C15: when an effect gets its start packet and a refresh packet on the same tick
\* (the tick of its activation, so remaining is its whole duration), the duration
\* fields of the two packets are equal.
C15_OneDurationUnit ==
    \A i, j \in DOMAIN sent :
        (sent[i].phase = "start" /\ sent[j].phase = "refresh" /\ sent[i].uid = sent[j].uid)
            => sent[i].packet.duration = sent[j].packet.duration

\* the packets a step has added to the inbox of p
NewInbox(p) == SubSeq(inbox'[p], Len(inbox[p]) + 1, Len(inbox'[p]))

\* C16, the step: when the despawn event of e is handled, every player other than e
\* within view distance of e gets one DestroyEntities packet listing e's id, no
\* other player gets one; every player gets one PlayerInfo RemovePlayer packet with
\* e's uuid if e is a player, and nobody gets one if e is not; nothing else is sent.
C16_DespawnStep ==
    \A e \in DOMAIN world :
        e \notin DOMAIN world' =>
            \A p \in EntityHandles :
                NewInbox(p) =
                    (IF /\ IsPlayer(world, p)
                        /\ p # e
                        /\ InRange(world[p].pos, world[e].pos)
                     THEN << [ type |-> "DestroyEntities", entity_ids |-> << world[e].id >> ] >>
                     ELSE <<>>)
                    \o
                    (IF IsPlayer(world, p) /\ world[e].player
                     THEN << [ type |-> "PlayerInfo", action |-> "RemovePlayer",
                               uuid |-> world[e].uuid ] >>
                     ELSE <<>>)

\* C16: the broadcasts of on_entity_despawn_broadcast_despawn.
C16_DespawnBroadcast == [][C16_DespawnStep]_vars

\* a player has despawned: a player near it has got both packets and a player far
\* from it only the PlayerInfo packet
C16_Witness ==
    \E p, q \in DOMAIN world : \E e \in EntityHandles \ DOMAIN world :
        /\ world[p].player /\ world[q].player
        /\ inbox[p] = << DestroyEntities(100 + e), PlayerInfo(200 + e) >>
        /\ inbox[q] = << PlayerInfo(200 + e) >>
        /\ inbox[e] = << PlayerInfo(200 + e) >>

\* the entities a step has created
Created == (DOMAIN components') \ (DOMAIN components)

\* the entry of BlockEntities at a position, or NoEntity
EntryAt(map, pos) == IF pos \in DOMAIN map THEN map[pos] ELSE NoEntity

\* the block now in the chunk map at a position; Air when its chunk is not loaded
CurrentBlock(pos) == IF chunk_map[pos] = NoChunk THEN "Air" ELSE chunk_map[pos]

\* C17, the step: in a run of BlockEntityCreateSystem, for every position with an
\* unread BlockUpdateEvent: if the block now in the chunk map there is registered,
\* exactly one entity is created for the position, by the creator of that block,
\* with BlockPositionComponent(p), and BlockEntities[p] is that entity afterwards;
\* otherwise no entity is created for it and BlockEntities[p] stays as it was.
\* Nothing is created or changed for the other positions.
C17_CreateStep ==
    (reader'["BlockEntityCreateSystem"] # reader["BlockEntityCreateSystem"]) =>
        LET unread == Unread(block_events, "BlockEntityCreateSystem")
            updated == { unread[i].pos : i \in DOMAIN unread }
        IN  \A pos \in BlockPositions :
                LET made == { e \in Created : components'[e].BlockPositionComponent = pos }
                IN  IF pos \in updated /\ CurrentBlock(pos) \in Registered
                    THEN /\ Cardinality(made) = 1
                         /\ \A e \in made :
                                /\ components'[e].creator = CurrentBlock(pos)
                                /\ EntryAt(block_entities', pos) = e
                                /\ e \in alive'
                    ELSE /\ made = {}
                         /\ EntryAt(block_entities', pos) = EntryAt(block_entities, pos)

\* C17: what BlockEntityCreateSystem creates and registers.
C17_CreateForCurrentBlock == [][C17_CreateStep]_vars

\* the block at a position was set to a registered block and then to another
\* registered block before BlockEntityCreateSystem ran: one entity, of the creator of
\* the second block, stands in BlockEntities; the other position, set to a
\* registered block and unloaded before the run, has none
C17_Witness ==
    \E pos, other \in BlockPositions :
        /\ Len(block_events) = 3
        /\ reader["BlockEntityCreateSystem"] = 3
        /\ block_events[1].pos = pos /\ block_events[3].pos = pos
        /\ block_events[1].new_block = "Chest" /\ block_events[3].new_block = "Furnace"
        /\ block_events[2].pos = other /\ block_events[2].new_block = "Chest"
        /\ chunk_map[other] = NoChunk
        /\ DOMAIN components = {1}
        /\ components[1].creator = "Furnace"
        /\ DOMAIN block_entities = {pos}

\* the EntityDestroyEvents a step has written
NewDestroyEvents == SubSeq(destroy_events', Len(destroy_events) + 1, Len(destroy_events'))

RECURSIVE ExpectedDestroys(_, _)
\* one EntityDestroyEvent for the entity registered at the position of each event
\* that changes the block there, in the order of the events
ExpectedDestroys(events, i) ==
    IF i > Len(events) THEN <<>>
    ELSE (IF events[i].old_block # events[i].new_block /\ events[i].pos \in DOMAIN block_entities
          THEN << [ entity |-> block_entities[events[i].pos] ] >>
          ELSE <<>>) \o ExpectedDestroys(events, i + 1)

\* C18, the step: a run of BlockEntityDestroySystem writes an EntityDestroyEvent for
\* the entity in BlockEntities at the position of every unread BlockUpdateEvent
\* with old_block # new_block, and none for an event with old_block = new_block or
\* at a position without an entry; no other step writes an EntityDestroyEvent.
C18_DestroyStep ==
    NewDestroyEvents =
        IF reader'["BlockEntityDestroySystem"] # reader["BlockEntityDestroySystem"]
        THEN ExpectedDestroys(Unread(block_events, "BlockEntityDestroySystem"), 1)
        ELSE <<>>

\* an EntityDestroyEvent has been written for the entity
DestroyRequested(e) == \E i \in DOMAIN destroy_events : destroy_events[i].entity = e

\* C18: BlockEntityDestroySystem requests the destruction of exactly the block
\* entities whose block has changed, and an entity whose destruction was requested
\* is eventually no longer alive.
C18_DestroyedOnChange ==
    /\ [][C18_DestroyStep]_vars
    /\ \A e \in 1..MaxBlockUpdates : DestroyRequested(e) ~> (e \notin alive)

\* a block entity was created for a registered block, the block was replaced by
\* air, and the entity has been destroyed after its EntityDestroyEvent; an event
\* that did not change a block was read as well
C18_Witness ==
    /\ DestroyRequested(1)
    /\ 1 \in DOMAIN components
    /\ 1 \notin alive
    /\ reader["BlockEntityDestroySystem"] = 3
    /\ Len(destroy_events) = 1
    /\ \E i \in DOMAIN block_events : block_events[i].old_block = block_events[i].new_block

\* C19: no run of the expiration phase ends in the panic of Vec::remove for an index
\* that is not below the length of the live collection.
C19_RemoveIndexInBounds == panic_msg # RemovalIndexPanic

\* C20, the step: every effect that a completed run of update_basic_effects takes
\* out of a collection has start_tick + duration <= now in that tick, and a
\* RemoveEntityEffect packet for it is among the packets of the run.
C20_RemoveStep ==
    (~RanBasic /\ RanBasic' /\ ~aborted') =>
        \A e \in Entities : \A i \in DOMAIN effects[e] :
            LET x == effects[e][i]
                start == IF x.time_start < 0 THEN tick_count ELSE x.time_start
            IN  x.uid \notin UidsOf(effects'[e]) =>
                    /\ start + x.duration <= tick_count
                    /\ Count(NewlySent, x.uid, "remove") >= 1

\* C20: update_basic_effects removes only expired effects, each with its packet.
C20_OnlyExpiredRemoved == [][C20_RemoveStep]_vars

---------------------------------------------------------------------------
\* C21: the unsigned computation of remaining in the resync phase never
\* underflows: on every run of update_basic_effects that reaches the resync
\* scan, every effect of an entity with a Network component has
\* time_start >= 0 and time_start + duration >= now as u64 values.
C21_ResyncStep ==
    ( /\ "update_basic_effects" \in pending
      /\ "update_basic_effects" \notin pending'
      /\ panic_msg' # RemovalIndexPanic )
    => \A e \in NetworkEntities : \A i \in DOMAIN effects'[e] :
           /\ effects'[e][i].time_start >= 0
           /\ ~RemainingU64(effects'[e][i], tick_count).overflow

C21_RemainingNeverUnderflows == [][C21_ResyncStep]_vars

\* the BlockUpdateEvents of the channel at a position
EventsAt(pos) == { i \in DOMAIN block_events : block_events[i].pos = pos }

\* the only BlockUpdateEvent ever triggered at the position places a registered
\* block there (old_block # new_block): the position had no block entity before
\* it, and whatever the two systems did for the position, they did for this event
PlacedOnce(pos) ==
    /\ Cardinality(EventsAt(pos)) = 1
    /\ \A i \in EventsAt(pos) :
           /\ block_events[i].old_block # block_events[i].new_block
           /\ block_events[i].new_block \in Registered

\* C22: when BlockEntityCreateSystem and BlockEntityDestroySystem both process
\* the same BlockUpdateEvent that places a registered block at a position with no
\* previous block entity, no EntityDestroyEvent is written for the block entity
\* created for it, whichever of the two systems runs first.
C22_NoDestroyForNewEntity ==
    \A pos \in BlockPositions :
        PlacedOnce(pos) =>
            \A e \in DOMAIN components :
                components[e].BlockPositionComponent = pos => ~DestroyRequested(e)

\* every system has read every event written so far
Settled ==
    /\ reader["BlockEntityCreateSystem"] = Len(block_events)
    /\ reader["BlockEntityDestroySystem"] = Len(block_events)
    /\ reader["EntityDestroySystem"] = Len(destroy_events)

\* the live block entities of a position
LiveAt(pos) == { e \in alive : components[e].BlockPositionComponent = pos }

\* C23: once the systems have handled the block updates, BlockEntities is
\* consistent with the live block entities: every entry p -> e refers to an
\* entity that has not been destroyed and whose BlockPositionComponent is p, and
\* every position has at most one live block entity.
C23_BlockEntitiesConsistent ==
    Settled =>
        /\ \A pos \in DOMAIN block_entities :
               /\ block_entities[pos] \in alive
               /\ components[block_entities[pos]].BlockPositionComponent = pos
        /\ \A pos \in BlockPositions : Cardinality(LiveAt(pos)) <= 1

\* C24, the step: the entities a step creates stand at different positions, and
\* there are no more of them than positions with an unread BlockUpdateEvent.
C24_CreateOnceStep ==
    LET unread == Unread(block_events, "BlockEntityCreateSystem")
        updated == { unread[i].pos : i \in DOMAIN unread }
    IN  /\ \A pos \in BlockPositions :
               Cardinality({ e \in Created : components'[e].BlockPositionComponent = pos }) <= 1
        /\ \A e \in Created : components'[e].BlockPositionComponent \in updated
        /\ Cardinality(Created) <= Cardinality(updated)

\* C24: within a single run of BlockEntityCreateSystem at most one block entity is
\* created per block position; of several BlockUpdateEvents for the same position
\* only the first is handled and the others create nothing.
C24_OneEntityPerPositionPerRun == [][C24_CreateOnceStep]_vars

\* two BlockUpdateEvents that place registered blocks at the same position were
\* read by one run of BlockEntityCreateSystem, which created a single entity
C24_Witness ==
    /\ Len(block_events) = 2
    /\ reader["BlockEntityCreateSystem"] = 2
    /\ block_events[1].pos = block_events[2].pos
    /\ block_events[1].new_block \in Registered
    /\ block_events[2].new_block \in Registered
    /\ chunk_map[block_events[2].pos] = block_events[2].new_block
    /\ DOMAIN components = {1}
    /\ components[1].BlockPositionComponent = block_events[1].pos

=============================================================================
